---- MODULE Spec2Model ----
(***************************************************************************)
(* State-machine model of SpotifyTUI (src/src/spotify_tui.py): the         *)
(* debounced search pipeline, result navigation and the playback command   *)
(* pipeline.  Time is counted in ticks of 100ms.                           *)
(***************************************************************************)
EXTENDS Integers, Sequences, FiniteSets, TLC

\* ------------------------------------------------------------------ bounds
MaxLen == 2          \* longest text the Input widget delivers
MaxReply == 3        \* most tracks a modelled search reply carries (<= SearchLimit)
MaxTasks == 2        \* search tasks created during a run
MaxPlayback == 2     \* handle_playback tasks alive at the same time

\* -------------------------------------------------------- program constants
Debounce == 2        \* asyncio.sleep(0.2), in ticks of 100ms
SettleDelay == 1     \* asyncio.sleep(0.1), in ticks of 100ms
SearchLimit == 5     \* sp.search(..., limit=5)
NoDeviceStatus == 404

\* MaxWorkers with a second executor thread
MaxWorkersTwo == 1 + 1

MaxWorkers == 1      \* ThreadPoolExecutor(max_workers=1)

\* ------------------------------------------------------------------- data
Chars == {" ", "a"}

Texts == UNION {[1..n -> Chars] : n \in 0..MaxLen}

RECURSIVE LStrip(_)
LStrip(s) == IF s # <<>> /\ Head(s) = " " THEN LStrip(Tail(s)) ELSE s

RECURSIVE RStrip(_)
RStrip(s) ==
    IF s # <<>> /\ s[Len(s)] = " " THEN RStrip(SubSeq(s, 1, Len(s) - 1)) ELSE s

\* str.strip()
Strip(s) == RStrip(LStrip(s))

Names == <<"T1", "T2", "T3", "T4", "T5">>
Artists == <<"Ar1", "Ar2", "Ar3", "Ar4", "Ar5">>
Uris == <<"u1", "u2", "u3", "u4", "u5">>

Track(i) == [name |-> Names[i], artist |-> Artists[i], uri |-> Uris[i]]

Min(a, b) == IF a < b THEN a ELSE b
Max(a, b) == IF a > b THEN a ELSE b

\* what sp.search(q, type="track", limit=5)["tracks"]["items"] can be
SearchItems ==
    {[i \in 1..n |-> Track(i)] : n \in 0..Min(MaxReply, SearchLimit)}
        \cup {<<Track(2), Track(1)>>}

\* how a remote call ends: normally, with a SpotifyException carrying an
\* http_status, or with an exception that is no SpotifyException
Ok == [exc |-> "none", http_status |-> 0]
NoDevice == [exc |-> "SpotifyException", http_status |-> NoDeviceStatus]
ApiError == [exc |-> "SpotifyException", http_status |-> 500]
OtherError == [exc |-> "ConnectionError", http_status |-> 0]
Failures == {NoDevice, ApiError, OtherError}
Ends == {Ok} \cup Failures

\* what sp.current_playback() can return: None or a dict
NonePlayback == [present |-> FALSE, is_playing |-> FALSE, item |-> ""]
Playbacks ==
    {NonePlayback} \cup
    [present : {TRUE}, is_playing : BOOLEAN, item : {"", "T1", "T2"}]

\* playback and playback.get('is_playing', False)
AndIsPlaying(pb) ==
    IF ~pb.present THEN "None" ELSE IF pb.is_playing THEN "True" ELSE "False"

\* playback and playback.get('item')
HasItem(pb) == pb.present /\ pb.item # ""

Truthy(v) == v = "True"

\* the text of the #now-playing label
StatusText(kind, arg) == [kind |-> kind, arg |-> arg]
NotPlayingMsg == StatusText("Not Playing", "")
PausedMsg == StatusText("Paused", "")
PlayingMsg(name) == StatusText("Playing: ", name)
NoDeviceMsg == StatusText("Error: No active Spotify device found", "")
PlaybackErrorDetailMsg(e) == StatusText("Playback Error: ", e.exc)
PlaybackErrorMsg == StatusText("Playback Error", "")

\* the content of the #results box
Placeholder == [text |-> "Type to search...", rows |-> <<>>]
NoResults == [text |-> "No results", rows |-> <<>>]
\* "\n".join(f"{'>' if i == selected_index else ' '} {name} by {artist}" ...)
Render(res, sel) ==
    [text |-> "",
     rows |-> [i \in 1..Len(res) |->
                 [mark |-> IF i - 1 = sel THEN ">" ELSE " ",
                  name |-> res[i].name, artist |-> res[i].artist]]]

\* ------------------------------------------------------------------ state
VARIABLES
    query,           \* self.query
    results,         \* self.results
    selected_index,  \* self.selected_index
    track_uri,       \* self.track_uri ("" for None)
    search_task,     \* self.search_task: index into tasks, 0 for None
    is_playing,      \* self.is_playing: "None", "True" or "False"
    has_focus,       \* #search-input has focus
    display,         \* content of the #results Static
    status,          \* content of the #now-playing Label
    tasks,           \* the delayed_search tasks created so far
    queue,           \* work items submitted to the executor, oldest first
    worker,          \* the tasks whose call an executor thread is running
    ptasks,          \* the handle_playback tasks alive
    sinceKey,        \* ticks since the last on_input_changed (-1: none yet)
    allRapid,        \* every on_input_changed came < Debounce after the previous
    searchCalls,     \* the sp.search calls issued, in order
    last             \* the step taken last and what it did

vars == <<query, results, selected_index, track_uri, search_task, is_playing,
          has_focus, display, status, tasks, queue, worker, ptasks, sinceKey,
          allRapid, searchCalls, last>>

\* the record of a step: operation, its argument, the task it ran for, the
\* is_playing and selected_index it found, the remote calls it made on the
\* event loop, what the playback read returned and how the step ended; the
\* tracks sp.search had returned to the task, the label the step found, and
\* whether an exception left the handler or coroutine
Step(op, arg) ==
    [op |-> op, arg |-> arg, t |-> 0, pre |-> "None", preIdx |-> 0,
     calls |-> <<>>, read |-> NonePlayback, end |-> Ok, stale |-> FALSE,
     before |-> "None", rend |-> Ok, items |-> <<>>, label |-> NotPlayingMsg,
     escaped |-> FALSE]

\* a step of the timer, the executor or a focus binding: no handler that reads
\* or writes the results, the index, the flag or the label
Internal == Step("", "")

\* ------------------------------------------------- debounced search pipeline
\* a delayed_search task: its query argument, where its coroutine stands
\* ("sleeping" in asyncio.sleep, "queued" in the executor's queue, "running" in
\* the executor thread, "returned" when the call is back and the coroutine is
\* about to resume, "done", "cancelled"), the ticks its sleep still lasts, the
\* value run_in_executor hands back, and whether an on_input_changed came
\* after the task was created; reply is what sp.search did in the task's call
NoReply == [end |-> Ok, items |-> <<>>]

NewTaskNoSleep(q) ==
    [query |-> q, st |-> "sleeping", rem |-> 0, result |-> <<>>,
     reply |-> NoReply,
     superseded |-> FALSE]

NewTask(q) ==
    [query |-> q, st |-> "sleeping", rem |-> Debounce, result |-> <<>>,
     reply |-> NoReply, superseded |-> FALSE]

\* asyncio.Task.done()
Done(task) == task.st \in {"done", "cancelled"}

\* asyncio.Task.cancel(): CancelledError is thrown into the coroutine at the
\* await it stands at, so nothing after that await runs; a call the executor
\* thread is already running goes on and its result is dropped
Cancel(ts, t) ==
    [ts EXCEPT ![t].st = "cancelled", ![t].query = <<>>, ![t].rem = 0,
               ![t].result = <<>>, ![t].reply = NoReply]

\* CancelPending without the cancel() call
CancelPendingNever(ts, st) == ts

\* if self.search_task and not self.search_task.done(): self.search_task.cancel()
CancelPending(ts, st) ==
    IF st # 0 /\ ~Done(ts[st]) THEN Cancel(ts, st) ELSE ts

Supersede(ts) == [i \in DOMAIN ts |-> [ts[i] EXCEPT !.superseded = TRUE]]

\* Schedules without the early return on an empty query
SchedulesAlways(q) == TRUE

\* 'if not self.query: ... return' decides whether a search task is started
Schedules(q) == q # <<>>

on_input_changed(value) ==
    LET q == Strip(value)
        ts == Supersede(CancelPending(tasks, search_task))
    IN  /\ query' = q
        /\ allRapid' = (allRapid /\ (sinceKey = -1 \/ sinceKey < Debounce))
        /\ sinceKey' = 0
        /\ IF q = <<>>
           THEN /\ results' = <<>>
                /\ display' = Placeholder
           ELSE UNCHANGED <<results, display>>
        /\ IF Schedules(q)
           THEN /\ Len(tasks) < MaxTasks
                /\ tasks' = Append(ts, NewTask(q))
                /\ search_task' = Len(tasks) + 1
           ELSE /\ tasks' = ts
                /\ UNCHANGED search_task
        /\ last' = Step("on_input_changed", "")
        /\ UNCHANGED <<selected_index, track_uri, is_playing, has_focus,
                       status, queue, worker, ptasks, searchCalls>>

\* the end of await asyncio.sleep(0.2): the call is handed to the executor
DelayedSearchSubmit(t) ==
    /\ tasks[t].st = "sleeping"
    /\ tasks[t].rem = 0
    /\ tasks' = [tasks EXCEPT ![t].st = "queued"]
    /\ queue' = Append(queue, t)
    /\ last' = Internal
    /\ UNCHANGED <<query, results, selected_index, track_uri, search_task,
                   is_playing, has_focus, display, status, worker, ptasks,
                   sinceKey, allRapid, searchCalls>>

\* what sp.search does: returns the items or raises
SearchReplies ==
    [end : {Ok}, items : SearchItems] \cup [end : Failures, items : {<<>>}]

\* search_spotify up to the remote call: a blank query returns without one
CallsRemote(q) == Strip(q) # <<>>

\* SearchSpotify that returns only the first track found
SearchSpotifyFirstOnly(q, reply) ==
    IF ~CallsRemote(q) THEN <<>>
    ELSE IF reply.end = Ok /\ reply.items # <<>> THEN <<reply.items[1]>>
    ELSE <<>>

\* search_spotify from the remote call on
SearchSpotify(q, reply) ==
    IF ~CallsRemote(q) THEN <<>>
    ELSE IF reply.end = Ok THEN reply.items ELSE <<>>

\* a free executor thread takes the oldest work item; an item whose future
\* was cancelled while it waited is dropped without running
WorkerTake ==
    /\ Cardinality(worker) < MaxWorkers
    /\ queue # <<>>
    /\ LET t == Head(queue)
       IN  /\ queue' = Tail(queue)
           /\ IF tasks[t].st = "queued"
              THEN /\ worker' = worker \cup {t}
                   /\ tasks' = [tasks EXCEPT ![t].st = "running"]
                   /\ searchCalls' =
                        IF CallsRemote(tasks[t].query)
                        THEN Append(searchCalls,
                                    [q |-> tasks[t].query, t |-> t,
                                     on |-> "worker",
                                     quiet |-> sinceKey >= Debounce,
                                     stale |-> tasks[t].superseded])
                        ELSE searchCalls
              ELSE UNCHANGED <<worker, tasks, searchCalls>>
           /\ last' = Internal
    /\ UNCHANGED <<query, results, selected_index, track_uri, search_task,
                   is_playing, has_focus, display, status, ptasks, sinceKey,
                   allRapid>>

\* WorkerReturn where search_spotify stores what it found in self.results
WorkerReturnStores(reply) ==
    \E w \in worker :
        /\ tasks' =
             IF tasks[w].st = "running"
             THEN [tasks EXCEPT ![w].st = "returned",
                                ![w].result =
                                    SearchSpotify(tasks[w].query, reply),
                                ![w].reply = reply]
             ELSE tasks
        /\ worker' = worker \ {w}
        /\ results' = SearchSpotify(tasks[w].query, reply)
        /\ last' = Internal
        /\ UNCHANGED <<query, selected_index, track_uri, search_task,
                       is_playing, has_focus, display, status, queue, ptasks,
                       sinceKey, allRapid, searchCalls>>

\* WorkerReturn where the call of a cancelled task never gives up its thread
WorkerReturnLiveOnly(reply) ==
    \E w \in worker :
        /\ tasks[w].st = "running"
        /\ tasks' = [tasks EXCEPT ![w].st = "returned",
                                  ![w].result =
                                      SearchSpotify(tasks[w].query, reply),
                                  ![w].reply = reply]
        /\ worker' = worker \ {w}
        /\ last' = Internal
        /\ UNCHANGED <<query, results, selected_index, track_uri, search_task,
                       is_playing, has_focus, display, status, queue, ptasks,
                       sinceKey, allRapid, searchCalls>>

\* the call in the executor thread returns (or raises, which search_spotify
\* turns into []); the value reaches the task only if it still waits for it
WorkerReturn(reply) ==
    \E w \in worker :
        /\ tasks' =
             IF tasks[w].st = "running"
             THEN [tasks EXCEPT ![w].st = "returned",
                                ![w].result =
                                    SearchSpotify(tasks[w].query, reply),
                                ![w].reply = reply]
             ELSE tasks
        /\ worker' = worker \ {w}
    /\ last' = Internal
    /\ UNCHANGED <<query, results, selected_index, track_uri, search_task,
                   is_playing, has_focus, display, status, queue, ptasks,
                   sinceKey, allRapid, searchCalls>>

\* ResetSelection without the reset
ResetSelectionNever(res, idx) == idx

\* selected_index after delayed_search stored res
ResetSelection(res, idx) == IF res # <<>> THEN 0 ELSE idx

\* delayed_search after the await: store and show the result
DelayedSearchApply(t) ==
    /\ tasks[t].st = "returned"
    /\ LET res == tasks[t].result
       IN  /\ results' = res
           /\ selected_index' = ResetSelection(res, selected_index)
           /\ display' =
                IF res # <<>>
                THEN Render(res, selected_index')
                ELSE IF tasks[t].query # <<>> THEN NoResults ELSE Placeholder
    /\ tasks' = [tasks EXCEPT ![t].st = "done", ![t].result = <<>>,
                              ![t].reply = NoReply]
    /\ last' = [Step("apply", "") EXCEPT !.t = t, !.preIdx = selected_index,
                                         !.stale = tasks[t].superseded,
                                         !.end = tasks[t].reply.end,
                                         !.items = tasks[t].reply.items]
    /\ UNCHANGED <<query, track_uri, search_task, is_playing, has_focus,
                   status, queue, worker, ptasks, sinceKey, allRapid,
                   searchCalls>>

\* 100ms pass: every pending asyncio.sleep comes 100ms nearer to its end
Tick ==
    /\ sinceKey' = IF sinceKey = -1 THEN -1 ELSE Min(sinceKey + 1, Debounce)
    /\ tasks' = [i \in DOMAIN tasks |->
                   IF tasks[i].st = "sleeping"
                   THEN [tasks[i] EXCEPT !.rem = Max(@ - 1, 0)]
                   ELSE tasks[i]]
    /\ ptasks' = [i \in DOMAIN ptasks |->
                    [ptasks[i] EXCEPT !.rem = Max(@ - 1, 0)]]
    /\ last' = Internal
    /\ UNCHANGED <<query, results, selected_index, track_uri, search_task,
                   is_playing, has_focus, display, status, queue, worker,
                   searchCalls, allRapid>>

\* ------------------------------------------------------- focus and the keys
action_focus_search ==
    /\ has_focus' = TRUE
    /\ last' = Internal
    /\ UNCHANGED <<query, results, selected_index, track_uri, search_task,
                   is_playing, display, status, tasks, queue, worker, ptasks,
                   sinceKey, allRapid, searchCalls>>

action_blur_search ==
    /\ has_focus' = FALSE
    /\ last' = Internal
    /\ UNCHANGED <<query, results, selected_index, track_uri, search_task,
                   is_playing, display, status, tasks, queue, worker, ptasks,
                   sinceKey, allRapid, searchCalls>>

Keys == {"space", "n", "p", "down", "up", "enter", "x"}

\* the action a key stands for in the branch 'if not input_widget.has_focus'
PlaybackAction(key) ==
    CASE key = "space" -> "play_pause"
      [] key = "n" -> "next"
      [] key = "p" -> "previous"
      [] OTHER -> ""

\* a handle_playback task: its action argument, where its coroutine stands
\* ("created", or "settling" in asyncio.sleep(0.1)), the ticks that sleep still
\* lasts, and the is_playing the coroutine found when it started
NewPlayback(action) ==
    [action |-> action, st |-> "created", rem |-> 0, before |-> "None"]

\* Navigates without the test of self.results
NavigatesAnyResults(focus, res) == focus

\* does on_key take the branch 'if input_widget.has_focus and self.results'
Navigates(focus, res) == focus /\ res # <<>>

\* min(self.selected_index + 1, len(self.results) - 1)
Down(idx, res) == Min(idx + 1, Len(res) - 1)

\* max(self.selected_index - 1, 0)
Up(idx) == Max(idx - 1, 0)

\* a remote call made by the event loop itself
Call(fn, arg) == [fn |-> fn, arg |-> arg, on |-> "loop"]

\* 'except spotipy.SpotifyException' around the remote calls of a playback
\* command: an exception of any other class leaves the handler or coroutine
Escapes(end) == end # Ok /\ end.exc # "SpotifyException"

\* Selected that takes the first result
SelectedFirst(res, idx) == res[1]

\* self.results[self.selected_index]
Selected(res, idx) == res[idx + 1]

\* the except clause of the enter branch
EnterStatus(end, name, old) ==
    CASE end = Ok -> PlayingMsg(name)
      [] end.exc = "SpotifyException" -> PlaybackErrorMsg
      [] OTHER -> old

on_key(key, end) ==
    /\ IF ~has_focus
       THEN /\ IF PlaybackAction(key) # ""
               THEN /\ Len(ptasks) < MaxPlayback
                    /\ ptasks' = Append(ptasks, NewPlayback(PlaybackAction(key)))
               ELSE UNCHANGED ptasks
            /\ end = Ok
            /\ last' = [Step("on_key", key) EXCEPT !.preIdx = selected_index]
            /\ UNCHANGED <<selected_index, display, track_uri, status>>
       ELSE IF Navigates(has_focus, results)
       THEN CASE key = "down" ->
                   /\ selected_index' = Down(selected_index, results)
                   /\ display' = Render(results, selected_index')
                   /\ end = Ok
                   /\ last' = [Step("on_key", key) EXCEPT
                                 !.preIdx = selected_index]
                   /\ UNCHANGED <<track_uri, status, ptasks>>
              [] key = "up" ->
                   /\ selected_index' = Up(selected_index)
                   /\ display' = Render(results, selected_index')
                   /\ end = Ok
                   /\ last' = [Step("on_key", key) EXCEPT
                                 !.preIdx = selected_index]
                   /\ UNCHANGED <<track_uri, status, ptasks>>
              [] key = "enter" ->
                   IF selected_index + 1 \in DOMAIN results
                   THEN LET track == Selected(results, selected_index)
                        IN  /\ track_uri' = track.uri
                            /\ status' = EnterStatus(end, track.name, status)
                            /\ last' = [Step("on_key", key) EXCEPT
                                          !.preIdx = selected_index,
                                          !.pre = is_playing,
                                          !.calls = <<Call("start_playback",
                                                           track.uri)>>,
                                          !.end = end,
                                          !.escaped = Escapes(end)]
                            /\ UNCHANGED <<selected_index, display, ptasks>>
                   ELSE /\ end = Ok
                        /\ last' = [Step("on_key", key) EXCEPT
                                      !.preIdx = selected_index,
                                      !.end = [exc |-> "IndexError",
                                               http_status |-> 0]]
                        /\ UNCHANGED <<selected_index, display, track_uri,
                                       status, ptasks>>
              [] OTHER ->
                   /\ end = Ok
                   /\ last' = [Step("on_key", key) EXCEPT
                                 !.preIdx = selected_index]
                   /\ UNCHANGED <<selected_index, display, track_uri, status,
                                  ptasks>>
       ELSE /\ end = Ok
            /\ last' = [Step("on_key", key) EXCEPT !.preIdx = selected_index]
            /\ UNCHANGED <<selected_index, display, track_uri, status, ptasks>>
    /\ UNCHANGED <<query, results, search_task, is_playing, has_focus, tasks,
                   queue, worker, sinceKey, allRapid, searchCalls>>

\* ------------------------------------------------ playback command pipeline
\* what sp.current_playback() does: returns a value or raises
Reads ==
    [end : {Ok}, pb : Playbacks] \cup [end : Failures, pb : {NonePlayback}]

\* the except clause of handle_playback; an exception that is no
\* SpotifyException leaves the coroutine and the label as it was
ErrorStatus(end, old) ==
    IF end.exc = "SpotifyException"
    THEN IF end.http_status = NoDeviceStatus
         THEN NoDeviceMsg
         ELSE PlaybackErrorDetailMsg(end)
    ELSE old

\* Command with the play_pause branches swapped
CommandSwapped(action, current_state) ==
    IF action = "play_pause"
    THEN IF current_state THEN "start_playback" ELSE "pause_playback"
    ELSE IF action = "next" THEN "next_track" ELSE "previous_track"

\* the remote command of an action, given current_state
Command(action, current_state) ==
    IF action = "play_pause"
    THEN IF current_state THEN "pause_playback" ELSE "start_playback"
    ELSE IF action = "next" THEN "next_track" ELSE "previous_track"

\* MarkPlaying that flips the local flag instead of following the read
MarkPlayingAlways(action, current_state) == "True"

\* self.is_playing after the remote command of an action went through
MarkPlaying(action, current_state) ==
    IF action = "play_pause" /\ current_state THEN "False" ELSE "True"

\* HandlePlayback that sets self.is_playing before it issues the command
HandlePlaybackMarksFirst(action, rd, cmdEnd, flag, label) ==
    LET current_state == Truthy(AndIsPlaying(rd.pb))
        cmd == Command(action, current_state)
        read == Call("current_playback", "")
    IN  IF rd.end # Ok
        THEN [calls |-> <<read>>, end |-> rd.end, is_playing |-> flag,
              status |-> ErrorStatus(rd.end, label), settle |-> FALSE]
        ELSE IF cmdEnd # Ok
        THEN [calls |-> <<read, Call(cmd, "")>>, end |-> cmdEnd,
              is_playing |-> MarkPlaying(action, current_state),
              status |-> ErrorStatus(cmdEnd, label), settle |-> FALSE]
        ELSE [calls |-> <<read, Call(cmd, "")>>, end |-> Ok,
              is_playing |-> MarkPlaying(action, current_state),
              status |->
                  IF action = "play_pause"
                  THEN IF current_state THEN PausedMsg
                       ELSE IF HasItem(rd.pb) THEN PlayingMsg(rd.pb.item)
                       ELSE label
                  ELSE label,
              settle |-> action # "play_pause"]

\* handle_playback from its start to its end or to its asyncio.sleep(0.1):
\* the remote calls made, how the run ended, the new self.is_playing and label,
\* and whether the coroutine goes on to the second fetch
HandlePlayback(action, rd, cmdEnd, flag, label) ==
    LET current_state == Truthy(AndIsPlaying(rd.pb))
        cmd == Command(action, current_state)
        read == Call("current_playback", "")
    IN  IF rd.end # Ok
        THEN [calls |-> <<read>>, end |-> rd.end, is_playing |-> flag,
              status |-> ErrorStatus(rd.end, label), settle |-> FALSE]
        ELSE IF cmdEnd # Ok
        THEN [calls |-> <<read, Call(cmd, "")>>, end |-> cmdEnd,
              is_playing |-> flag, status |-> ErrorStatus(cmdEnd, label),
              settle |-> FALSE]
        ELSE [calls |-> <<read, Call(cmd, "")>>, end |-> Ok,
              is_playing |-> MarkPlaying(action, current_state),
              status |->
                  IF action = "play_pause"
                  THEN IF current_state THEN PausedMsg
                       ELSE IF HasItem(rd.pb) THEN PlayingMsg(rd.pb.item)
                       ELSE label
                  ELSE label,
              settle |-> action # "play_pause"]

Remove(seq, i) == SubSeq(seq, 1, i - 1) \o SubSeq(seq, i + 1, Len(seq))

\* the event loop starts the tasks in the order create_task made them
HandlePlaybackRun(i, rd, cmdEnd) ==
    /\ ptasks[i].st = "created"
    /\ \A j \in 1..(i - 1) : ptasks[j].st # "created"
    /\ rd.end # Ok => cmdEnd = Ok
    /\ LET r == HandlePlayback(ptasks[i].action, rd, cmdEnd, is_playing, status)
       IN  /\ is_playing' = r.is_playing
           /\ status' = r.status
           /\ ptasks' =
                IF r.settle
                THEN [ptasks EXCEPT ![i].st = "settling",
                                    ![i].rem = SettleDelay,
                                    ![i].before = is_playing]
                ELSE Remove(ptasks, i)
           /\ last' = [Step("handle_playback", ptasks[i].action) EXCEPT
                         !.pre = is_playing, !.calls = r.calls,
                         !.read = rd.pb, !.end = r.end,
                         !.before = is_playing, !.rend = rd.end,
                         !.escaped = Escapes(r.end)]
    /\ UNCHANGED <<query, results, selected_index, track_uri, search_task,
                   has_focus, display, tasks, queue, worker, sinceKey,
                   allRapid, searchCalls>>

\* Refetch that leaves a track name already on the label
RefetchKeepsName(rd, label) ==
    IF rd.end # Ok THEN ErrorStatus(rd.end, label)
    ELSE IF HasItem(rd.pb) /\ label.kind # "Playing: "
    THEN PlayingMsg(rd.pb.item)
    ELSE label

\* handle_playback after its asyncio.sleep(0.1): the second fetch
Refetch(rd, label) ==
    IF rd.end # Ok THEN ErrorStatus(rd.end, label)
    ELSE IF HasItem(rd.pb) THEN PlayingMsg(rd.pb.item)
    ELSE label

HandlePlaybackRefetch(i, rd) ==
    /\ ptasks[i].st = "settling"
    /\ ptasks[i].rem = 0
    /\ status' = Refetch(rd, status)
    /\ ptasks' = Remove(ptasks, i)
    /\ last' = [Step("refetch", ptasks[i].action) EXCEPT
                  !.pre = is_playing,
                  !.calls = <<Call("current_playback", "")>>,
                  !.read = rd.pb, !.end = rd.end,
                  !.before = ptasks[i].before, !.rend = rd.end,
                  !.label = status, !.escaped = Escapes(rd.end)]
    /\ UNCHANGED <<query, results, selected_index, track_uri, search_task,
                   is_playing, has_focus, display, tasks, queue, worker,
                   sinceKey, allRapid, searchCalls>>

\* ------------------------------------------------------------ on_mount
\* MountIsPlaying without the assignment of the except clause
MountIsPlayingUnset(rd) == IF rd.end = Ok THEN AndIsPlaying(rd.pb) ELSE "None"

\* self.is_playing after the startup read
MountIsPlaying(rd) == IF rd.end = Ok THEN AndIsPlaying(rd.pb) ELSE "False"

\* the #now-playing label after the startup read
MountStatus(rd) ==
    IF rd.end = Ok /\ HasItem(rd.pb) THEN PlayingMsg(rd.pb.item)
    ELSE NotPlayingMsg

Init ==
    \E rd \in Reads, focus \in BOOLEAN :
        /\ query = <<>>
        /\ results = <<>>
        /\ selected_index = 0
        /\ track_uri = ""
        /\ search_task = 0
        /\ is_playing = MountIsPlaying(rd)
        /\ has_focus = focus
        /\ display = Placeholder
        /\ status = MountStatus(rd)
        /\ tasks = <<>>
        /\ queue = <<>>
        /\ worker = {}
        /\ ptasks = <<>>
        /\ sinceKey = -1
        /\ allRapid = TRUE
        /\ searchCalls = <<>>
        /\ last = [Step("on_mount", "") EXCEPT
                     !.calls = <<Call("current_playback", "")>>,
                     !.read = rd.pb, !.end = rd.end, !.rend = rd.end]

Next ==
    \/ \E value \in Texts : on_input_changed(value)
    \/ \E t \in DOMAIN tasks : DelayedSearchSubmit(t)
    \/ WorkerTake
    \/ \E reply \in SearchReplies : WorkerReturn(reply)
    \/ \E t \in DOMAIN tasks : DelayedSearchApply(t)
    \/ Tick
    \/ action_focus_search
    \/ action_blur_search
    \/ \E key \in Keys, end \in Ends : on_key(key, end)
    \/ \E i \in DOMAIN ptasks, rd \in Reads, cmdEnd \in Ends :
           HandlePlaybackRun(i, rd, cmdEnd)
    \/ \E i \in DOMAIN ptasks, rd \in Reads : HandlePlaybackRefetch(i, rd)

Spec == Init /\ [][Next]_vars

\* the search pipeline and the navigation of its results on their own: the
\* input widget, the timer, the executor thread and the keys that make no
\* remote call
NavKeys == {"down", "up", "x"}

SearchNext ==
    \/ \E value \in Texts : on_input_changed(value)
    \/ \E t \in DOMAIN tasks : DelayedSearchSubmit(t)
    \/ WorkerTake
    \/ \E reply \in SearchReplies : WorkerReturn(reply)
    \/ \E t \in DOMAIN tasks : DelayedSearchApply(t)
    \/ Tick
    \/ action_focus_search
    \/ action_blur_search
    \/ \E key \in NavKeys, end \in Ends : on_key(key, end)

\* no step of SearchNext reads self.is_playing or the #now-playing label, so
\* one outcome of on_mount stands for all: the startup read failed
SearchInit == Init /\ last.end = ApiError

SearchSpec == SearchInit /\ [][SearchNext]_vars

\* the steps that read or write the search tasks, the executor's queue and
\* its thread: typing, the timer, delayed_search and the executor; on_key and
\* the focus bindings touch none of these
PipelineNext ==
    \/ \E value \in Texts : on_input_changed(value)
    \/ \E t \in DOMAIN tasks : DelayedSearchSubmit(t)
    \/ WorkerTake
    \/ \E reply \in SearchReplies : WorkerReturn(reply)
    \/ \E t \in DOMAIN tasks : DelayedSearchApply(t)
    \/ Tick

\* the scheduling of the search pipeline: time passes and a sleep that is
\* over returns, the event loop resumes a coroutine that is ready, the executor
\* thread takes the next work item when it is free, and a remote search call
\* comes back; nothing obliges the user to type
SearchFairness ==
    /\ WF_vars(Tick)
    /\ WF_vars(\E t \in DOMAIN tasks : DelayedSearchSubmit(t))
    /\ WF_vars(WorkerTake)
    /\ WF_vars(\E reply \in SearchReplies : WorkerReturn(reply))
    /\ WF_vars(\E t \in DOMAIN tasks : DelayedSearchApply(t))

SearchLiveSpec == SearchInit /\ [][PipelineNext]_vars /\ SearchFairness

\* the search pipeline with the enter key, which plays the selected result
SelectNext ==
    \/ SearchNext
    \/ \E end \in Ends : on_key("enter", end)

SelectSpec == SearchInit /\ [][SelectNext]_vars

\* the playback command pipeline on its own: the keys, the focus bindings,
\* the timer and the handle_playback tasks
PlaybackNext ==
    \/ Tick
    \/ action_focus_search
    \/ action_blur_search
    \/ \E key \in Keys, end \in Ends : on_key(key, end)
    \/ \E i \in DOMAIN ptasks, rd \in Reads, cmdEnd \in Ends :
           HandlePlaybackRun(i, rd, cmdEnd)
    \/ \E i \in DOMAIN ptasks, rd \in Reads : HandlePlaybackRefetch(i, rd)

PlaybackSpec == Init /\ [][PlaybackNext]_vars

TypeOK ==
    /\ is_playing \in {"None", "True", "False"}
    /\ selected_index \in 0..SearchLimit
    /\ search_task \in 0..Len(tasks)

\* ================================================================== claims
IsCommand(step) ==
    step.op \in {"handle_playback", "refetch"}
        \/ (step.op = "on_key" /\ step.arg = "enter" /\ step.calls # <<>>)

Issued(step, fns) == {i \in DOMAIN step.calls : step.calls[i].fn \in fns}

\* C1: a search task that an on_input_changed came after never stores or
\* shows its result; the task that does is the one in self.search_task and
\* no input event came after it was created
C1_SupersededNeverApplies ==
    last.op = "apply" => (~last.stale /\ last.t = search_task)

\* a second task applied its result after the first one's call had gone out
\* and the first one was cancelled
C1_Witness ==
    /\ last.op = "apply"
    /\ last.t = 2
    /\ tasks[1].st = "cancelled"
    /\ \E i \in DOMAIN searchCalls : searchCalls[i].t = 1

\* C2: while every input event came less than the debounce interval after
\* the one before, the only remote search ever issued is the one of the last
\* event's task, for the last event's text, at most once, no sooner than the
\* debounce interval after that event, and exactly once when that task is done
C2_RapidKeysOneSearch ==
    allRapid =>
        /\ Len(searchCalls) <= 1
        /\ \A i \in DOMAIN searchCalls :
              /\ searchCalls[i].t = search_task
              /\ ~searchCalls[i].stale
              /\ ~tasks[searchCalls[i].t].superseded
              /\ searchCalls[i].q = query
              /\ searchCalls[i].quiet
        /\ (search_task # 0 /\ tasks[search_task].st = "done")
              => Len(searchCalls) = 1

\* two rapid input events: the first one's task was cancelled in its sleep,
\* the second one's search went out and was applied
C2_Witness ==
    /\ allRapid
    /\ Len(tasks) = 2
    /\ tasks[1].st = "cancelled"
    /\ tasks[2].st = "done"
    /\ Len(searchCalls) = 1
    /\ searchCalls[1].q = <<"a", "a">>

\* C3: after an input event whose text is blank, no search task is alive
\* (none was started, the pending one is cancelled), self.results is empty and
\* the placeholder is shown; and no remote search ever carries a blank text
C3_BlankInputClears ==
    /\ \A i \in DOMAIN searchCalls : Strip(searchCalls[i].q) # <<>>
    /\ (last.op = "on_input_changed" /\ query = <<>>) =>
          /\ results = <<>>
          /\ display = Placeholder
          /\ \A t \in DOMAIN tasks : Done(tasks[t])

\* a blank text arrived while a task was pending and after results had been
\* shown and browsed
C3_Witness ==
    /\ last.op = "on_input_changed"
    /\ query = <<>>
    /\ selected_index > 0
    /\ search_task = 2
    /\ tasks[2].st = "cancelled"

\* C4: whenever self.results is non-empty the index is within it, so that
\* self.results[self.selected_index] is a row whenever the enter branch can
\* read it; down moves the index to min(index+1, len-1), up to max(index-1, 0)
C4_IndexInRange ==
    /\ results # <<>> => selected_index \in 0..(Len(results) - 1)
    /\ Navigates(has_focus, results) => selected_index + 1 \in DOMAIN results
    /\ (last.op = "on_key" /\ has_focus /\ results # <<>>) =>
          /\ last.arg = "down" =>
                selected_index = Min(last.preIdx + 1, Len(results) - 1)
          /\ last.arg = "up" => selected_index = Max(last.preIdx - 1, 0)

\* a shorter list replaced the results while the index stood on the last row
C4_Witness ==
    /\ last.op = "apply"
    /\ last.preIdx = 2
    /\ Len(results) = 1
    /\ selected_index = 0

\* C5: after every write of self.results (a search that came back with
\* tracks, with none or failed, a blank query) self.selected_index is 0
C5_EveryWriteResets ==
    (last.op = "apply" \/ (last.op = "on_input_changed" /\ query = <<>>))
        => selected_index = 0

\* C6 as stated: up and down change the index only when self.results is
\* non-empty and the search input is not focused
C6_NavigationUnfocused ==
    (last.op = "on_key" /\ last.arg \in {"up", "down"}
        /\ selected_index # last.preIdx)
        => (results # <<>> /\ ~has_focus)

\* C6 amended: up and down change the index only when self.results is
\* non-empty and the search input is focused, and leave it alone otherwise
C6_NavigationFocused ==
    (last.op = "on_key" /\ last.arg \in {"up", "down"}) =>
        /\ selected_index # last.preIdx => (results # <<>> /\ has_focus)
        /\ ~(results # <<>> /\ has_focus) => selected_index = last.preIdx

\* down moved the index while the input was focused
C6_Witness ==
    /\ last.op = "on_key"
    /\ last.arg = "down"
    /\ has_focus
    /\ selected_index = last.preIdx + 1

\* C7: one play_pause run reads the playback once and first, issues at most
\* one of pause and play: pause exactly when the read reports playing, play
\* exactly when it succeeds and reports otherwise; on success the local flag
\* is false after pause and true after play
C7_PauseOrPlay ==
    (last.op = "handle_playback" /\ last.arg = "play_pause") =>
        LET pauses == Issued(last, {"pause_playback"})
            plays == Issued(last, {"start_playback"})
            reads == Issued(last, {"current_playback"})
            playing == last.rend = Ok /\ Truthy(AndIsPlaying(last.read))
        IN  /\ reads = {1}
            /\ Cardinality(pauses \cup plays) <= 1
            /\ pauses # {} <=> playing
            /\ plays # {} <=> (last.rend = Ok /\ ~playing)
            /\ last.end = Ok =>
                  is_playing = IF pauses # {} THEN "False" ELSE "True"

\* a play_pause run that paused
C7_Witness ==
    /\ last.op = "handle_playback"
    /\ last.arg = "play_pause"
    /\ last.end = Ok
    /\ Issued(last, {"pause_playback"}) = {2}
    /\ is_playing = "False"

\* C8 as stated: a play_pause run that succeeds leaves the local flag the
\* negation of what it was before the run
C8_TogglesLocalFlag ==
    (last.op = "handle_playback" /\ last.arg = "play_pause" /\ last.end = Ok)
        => Truthy(is_playing) = ~Truthy(last.pre)

\* C8 amended: a play_pause run that succeeds leaves the local flag the
\* negation of the playing state its read reported; that is the negation of
\* the flag before the run exactly when the flag agreed with the read
C8_NegatesRemoteState ==
    (last.op = "handle_playback" /\ last.arg = "play_pause" /\ last.end = Ok)
        => LET current_state == Truthy(AndIsPlaying(last.read))
           IN  /\ is_playing \in {"True", "False"}
               /\ Truthy(is_playing) = ~current_state
               /\ (Truthy(is_playing) = ~Truthy(last.pre))
                     <=> (Truthy(last.pre) = current_state)

\* the flag was false, the remote was playing: the run paused and the flag
\* stayed false
C8_Witness ==
    /\ last.op = "handle_playback"
    /\ last.arg = "play_pause"
    /\ last.end = Ok
    /\ last.pre = "False"
    /\ last.read.is_playing
    /\ is_playing = "False"

\* C9: whichever playback command (play_pause, next, previous, enter on a
\* result) the remote answers with "no active device", the label shows the
\* no-device message, which no other failure shows; play_pause leaves the
\* local flag as it was
C9_NoDeviceMessage ==
    /\ NoDeviceMsg \notin {PlaybackErrorMsg, PlaybackErrorDetailMsg(ApiError),
                           PlaybackErrorDetailMsg(OtherError)}
    /\ (IsCommand(last) /\ last.end = NoDevice) =>
          /\ status = NoDeviceMsg
          /\ last.arg = "play_pause" => is_playing = last.pre

\* C10 as stated: a play_pause, next or previous command one of whose remote
\* calls failed leaves the local flag what it was before the command
C10_FailureKeepsFlag ==
    (last.op \in {"handle_playback", "refetch"} /\ last.end # Ok)
        => is_playing = last.before

\* C10 amended: when the first read or the pause/play/skip call fails the
\* local flag is what it was before the command and no call follows the
\* failed one; when the second read of next/previous fails the flag stays
\* what the read found (the skip has set it to true already) and the skip is
\* not issued again
C10_FailedStepKeepsFlag ==
    /\ (last.op = "handle_playback" /\ last.end # Ok) =>
          /\ is_playing = last.before
          /\ Len(last.calls) = IF last.rend = Ok THEN 2 ELSE 1
    /\ (last.op = "refetch" /\ last.end # Ok) =>
          /\ is_playing = last.pre
          /\ last.calls = <<Call("current_playback", "")>>

\* the second read of a skip failed after the skip had turned the flag on
C10_Witness ==
    /\ last.op = "refetch"
    /\ last.end # Ok
    /\ last.before = "False"
    /\ is_playing = "True"

\* C11: a next/previous command reads the playback, issues the skip and sets
\* the local flag to true in that order, then sleeps the fixed delay; the
\* second read is made only by a command whose delay has run out, and when it
\* succeeds with an item the label shows the fetched name whatever it showed
\* before
C11_SkipThenRefetch ==
    /\ [](/\ (/\ last.op = "handle_playback"
               /\ last.arg \in {"next", "previous"}
               /\ last.end = Ok) =>
                  /\ last.calls = <<Call("current_playback", ""),
                                    Call(Command(last.arg, FALSE), "")>>
                  /\ is_playing = "True"
                  /\ SettleDelay > 0
                  /\ \E i \in DOMAIN ptasks :
                        /\ ptasks[i].action = last.arg
                        /\ ptasks[i].st = "settling"
                        /\ ptasks[i].rem = SettleDelay
          /\ last.op = "refetch" =>
                  /\ last.arg \in {"next", "previous"}
                  /\ last.calls = <<Call("current_playback", "")>>
                  /\ is_playing = last.pre
                  /\ (last.end = Ok /\ HasItem(last.read)) =>
                        status = PlayingMsg(last.read.item))
    /\ [][last'.op = "refetch" =>
            \E i \in DOMAIN ptasks :
                /\ ptasks[i].st = "settling"
                /\ ptasks[i].rem = 0
                /\ ptasks[i].action = last'.arg
                /\ ptasks' = Remove(ptasks, i)]_vars

\* the second read of a skip replaced the track name the label showed
C11_Witness ==
    /\ last.op = "refetch"
    /\ last.end = Ok
    /\ last.label = PlayingMsg("T1")
    /\ last.read.item = "T2"
    /\ status = PlayingMsg("T2")

\* C12: no failure of a remote call leaves the handler or coroutine that made
\* the call: a failed playback command (enter on a result included) ends with
\* an error message on the label, a failed search with "No results" in the
\* results box, a failed startup read with nothing raised
C12_FailuresCaught ==
    /\ ~last.escaped
    /\ (IsCommand(last) /\ last.end # Ok) =>
          status \in {NoDeviceMsg, PlaybackErrorMsg,
                      PlaybackErrorDetailMsg(last.end)}
    /\ (last.op = "apply" /\ last.end # Ok) => display = NoResults

\* C13: once the app is mounted every remote call (search, playback read,
\* pause, play, next, previous) runs in the executor thread and none in a
\* handler or coroutine on the event loop
C13_RemoteCallsOffLoop ==
    /\ \A i \in DOMAIN searchCalls : searchCalls[i].on = "worker"
    /\ last.op # "on_mount" =>
          \A i \in DOMAIN last.calls : last.calls[i].on = "worker"

\* C14: self.results, self.selected_index and the results box change only in
\* a step of a handler or coroutine on the event loop (on_input_changed,
\* on_key, delayed_search after its await), never in a step of the executor
\* thread; delayed_search stores the list, resets the index and redraws the
\* box in one step
C14_OnlyLoopWrites ==
    /\ [][(\/ results' # results
           \/ selected_index' # selected_index
           \/ display' # display) =>
              last'.op \in {"on_input_changed", "on_key", "apply"}]_vars
    /\ [][(worker' # worker \/ searchCalls' # searchCalls) =>
              UNCHANGED <<results, selected_index, display>>]_vars
    /\ []((last.op = "apply" /\ results # <<>>) =>
              /\ selected_index = 0
              /\ display = Render(results, 0))

\* delayed_search stored a list of three and put the index back on its first
\* entry in the same step
C14_Witness ==
    /\ last.op = "apply"
    /\ Len(results) = 3
    /\ last.preIdx = 1
    /\ selected_index = 0
    /\ display = Render(results, 0)

\* C15: when the call of a search task that was not cancelled raised or
\* returned no track, self.results is empty and the results box shows
\* "No results"; when it returned tracks, self.results is exactly the returned
\* sequence, in its order, and nothing of the list it replaces
C15_ResultsAreTheReply ==
    last.op = "apply" =>
        IF last.end # Ok \/ last.items = <<>>
        THEN results = <<>> /\ display = NoResults
        ELSE results = last.items /\ display = Render(last.items, 0)

\* a failed search emptied a list in which the user had moved down
C15_Witness ==
    /\ last.op = "apply"
    /\ last.end # Ok
    /\ last.preIdx > 0
    /\ results = <<>>
    /\ display = NoResults

\* C16: on_mount makes exactly one playback read; when the read fails
\* self.is_playing is False, the label still says "Not Playing" and no
\* exception leaves on_mount
C16_StartupRead ==
    last.op = "on_mount" =>
        /\ last.calls = <<Call("current_playback", "")>>
        /\ last.end # Ok =>
              /\ is_playing = "False"
              /\ status = NotPlayingMsg
              /\ ~last.escaped

\* the app came up while the remote could not be reached
C16_Witness ==
    /\ last.op = "on_mount"
    /\ last.end = OtherError
    /\ is_playing = "False"
    /\ status = NotPlayingMsg

\* C17 as stated: enter with a non-empty list makes exactly one remote call,
\* start_playback with the uri of the result under the selection
C17_EnterAlwaysPlays ==
    (last.op = "on_key" /\ last.arg = "enter" /\ results # <<>>) =>
        /\ selected_index + 1 \in DOMAIN results
        /\ last.calls =
              <<Call("start_playback", results[selected_index + 1].uri)>>

\* C17 amended: enter with the search box focused and a non-empty list
\* makes exactly one remote call, start_playback with the uri of the result
\* under the selection, and no playback read before or after it; when the call
\* succeeds the label shows the name of that result
C17_EnterPlaysSelection ==
    (last.op = "on_key" /\ last.arg = "enter"
        /\ Navigates(has_focus, results)) =>
        /\ selected_index + 1 \in DOMAIN results
        /\ last.calls =
              <<Call("start_playback", results[selected_index + 1].uri)>>
        /\ track_uri = results[selected_index + 1].uri
        /\ last.end = Ok =>
              status = PlayingMsg(results[selected_index + 1].name)

\* enter played the second of several results
C17_Witness ==
    /\ last.op = "on_key"
    /\ last.arg = "enter"
    /\ last.end = Ok
    /\ selected_index = 1
    /\ track_uri = results[2].uri
    /\ status = PlayingMsg(results[2].name)

\* C18: a search task that no on_input_changed has followed does not stay
\* pending: either another input event comes, or its call is made with the
\* query the input holds and self.results becomes what that call returned,
\* whatever calls of abandoned tasks the one executor thread has to finish
\* first
C18_LastQueryApplied ==
    \A t \in 1..MaxTasks :
        (/\ t \in DOMAIN tasks
         /\ ~tasks[t].superseded
         /\ ~Done(tasks[t]))
        ~> (\/ t \in DOMAIN tasks /\ tasks[t].superseded
            \/ /\ last.op = "apply"
               /\ last.t = t
               /\ \E i \in DOMAIN searchCalls :
                     searchCalls[i].t = t /\ searchCalls[i].q = query
               /\ results = IF last.end = Ok THEN last.items ELSE <<>>)

\* the result of the last query was stored after the thread had finished the
\* call of the task that the last keystroke cancelled
C18_Witness ==
    /\ last.op = "apply"
    /\ last.t = 2
    /\ ~last.stale
    /\ tasks[1].st = "cancelled"
    /\ Len(searchCalls) = 2
    /\ searchCalls[2].q = query
    /\ results = last.items
    /\ results # <<>>

\* C19: whenever the label shows "Playing: <name>" self.is_playing is True,
\* and whenever it shows "Paused" self.is_playing is False
C19_LabelMatchesFlag ==
    /\ status.kind = PlayingMsg("").kind => is_playing = "True"
    /\ status = PausedMsg => is_playing = "False"

\* C20: at most one search call runs at a time; a call starts only when the
\* executor thread is free, and it is the call at the head of the queue, to
\* which run_in_executor appends at the end, so the calls reach the API in the
\* order their tasks submitted them and a call submitted while another runs
\* waits for that one to return
C20_OneCallInOrder ==
    /\ [](/\ Cardinality(worker) <= 1
          /\ \A t \in DOMAIN tasks : tasks[t].st = "running" => t \in worker
          /\ \A i, j \in DOMAIN searchCalls :
                i < j => searchCalls[i].t < searchCalls[j].t
          /\ \A i \in DOMAIN searchCalls, j \in DOMAIN queue :
                searchCalls[i].t < queue[j])
    /\ [][Len(searchCalls') > Len(searchCalls) =>
            /\ worker = {}
            /\ queue # <<>>
            /\ searchCalls' = Append(searchCalls, searchCalls'[Len(searchCalls')])
            /\ searchCalls'[Len(searchCalls')].t = Head(queue)
            /\ queue' = Tail(queue)
            /\ worker' = {Head(queue)}]_vars
    /\ [][queue' # queue =>
            \/ queue # <<>> /\ queue' = Tail(queue)
            \/ \E t \in DOMAIN tasks : queue' = Append(queue, t)]_vars

\* the call of a cancelled task still holds the thread and the call of the
\* task that replaced it waits in the queue
C20_Witness ==
    /\ worker = {1}
    /\ tasks[1].st = "cancelled"
    /\ queue = <<2>>
    /\ tasks[2].st = "queued"
    /\ Len(searchCalls) = 1

====
